---- MODULE Spec2Model ----
(***************************************************************************)
(* Model of process_messages.py: the pipeline that cuts a text blob into   *)
(* group sections and message blocks, cleans and filters every block,      *)
(* sorts the accepted messages and computes the covered time window.       *)
(*                                                                         *)
(* A text is a sequence of Unicode code points (a Python str); the regular *)
(* expressions of the source are modelled by what they match, position by  *)
(* position, with the leftmost, non-overlapping scan of re.sub / re.split. *)
(***************************************************************************)
EXTENDS Integers, Sequences, FiniteSets, TLC

(***************************************************************************)
(* Character classes of Python's re on str patterns, for the code points   *)
(* the inputs below are made of (ASCII and the emoji ranges).              *)
(***************************************************************************)

\* [0-9]: what \d matches among the modelled code points
IsDigit(c) == c >= 48 /\ c <= 57

\* \w: letters, digits and the underscore
IsWord(c) ==
    \/ (c >= 48 /\ c <= 57)
    \/ (c >= 65 /\ c <= 90)
    \/ (c >= 97 /\ c <= 122)
    \/ c = 95

\* \s and str.strip(): tab, LF, VT, FF, CR, FS..US, space
IsSpace(c) == (c >= 9 /\ c <= 13) \/ (c >= 28 /\ c <= 32)

\* \S
NotSpace(c) == ~IsSpace(c)

\* '.' without DOTALL: anything but a line feed
IsDot(c) == c # 10

\* str.lower() on one code point (A-Z fold to a-z, the rest is unchanged)
LowerChar(c) == IF c >= 65 /\ c <= 90 THEN c + 32 ELSE c

\* str.lower()
Lower(s) == [k \in 1..Len(s) |-> LowerChar(s[k])]

\* s[i:i+len(lit)] == lit
LitAt(s, i, lit) ==
    /\ i >= 1
    /\ i + Len(lit) - 1 <= Len(s)
    /\ \A k \in 1..Len(lit) : s[i + k - 1] = lit[k]

\* `sub in s` on strings
Contains(s, sub) == \E i \in 1..(Len(s) - Len(sub) + 1) : s[i] = sub[1] /\ LitAt(s, i, sub)

\* the least element of a non-empty set of integers
Min(S) == CHOOSE x \in S : \A y \in S : x <= y

\* the greatest element of a non-empty set of integers
Max(S) == CHOOSE x \in S : \A y \in S : x >= y

\* a character class of the patterns, by its escape: \w, \s, \S and '.'
InClass(class, c) ==
    CASE class = "w" -> IsWord(c)
      [] class = "s" -> IsSpace(c)
      [] class = "S" -> NotSpace(c)
      [] class = "." -> IsDot(c)

\* the length of the longest run of code points of the class that starts at i
RunLen(class, s, i) ==
    IF i > Len(s) THEN 0
    ELSE LET stop == CHOOSE j \in i..(Len(s) + 1) :
                        /\ j > Len(s) \/ ~InClass(class, s[j])
                        /\ \A k \in i..(j - 1) : InClass(class, s[k])
         IN  stop - i

\* the length of the longest run of the code point c that starts at i
CharRun(c, s, i) ==
    IF i > Len(s) THEN 0
    ELSE LET stop == CHOOSE j \in i..(Len(s) + 1) :
                        /\ j > Len(s) \/ s[j] # c
                        /\ \A k \in i..(j - 1) : s[k] = c
         IN  stop - i

\* str.strip()
Strip(s) ==
    LET lead == RunLen("s", s, 1)
        last == CHOOSE j \in (lead + 1)..Len(s) :
                    ~IsSpace(s[j]) /\ \A k \in (j + 1)..Len(s) : IsSpace(s[k])
    IN  IF lead = Len(s) THEN <<>> ELSE SubSeq(s, lead + 1, last)

(***************************************************************************)
(* remove_emojis                                                           *)
(***************************************************************************)

\* the character class of emoji_pattern
IsEmoji(c) ==
    \/ (c >= 128512 /\ c <= 128591)   \* U+1F600-U+1F64F emoticons
    \/ (c >= 127744 /\ c <= 128511)   \* U+1F300-U+1F5FF symbols & pictographs
    \/ (c >= 128640 /\ c <= 128767)   \* U+1F680-U+1F6FF transport & map
    \/ (c >= 127456 /\ c <= 127487)   \* U+1F1E0-U+1F1FF flags
    \/ (c >= 9986 /\ c <= 10160)      \* U+2702-U+27B0
    \/ (c >= 9410 /\ c <= 127569)     \* U+24C2-U+1F251
    \/ (c >= 129280 /\ c <= 129535)   \* U+1F900-U+1F9FF
    \/ (c >= 129536 /\ c <= 129791)   \* U+1FA00-U+1FAFF

NotEmoji(c) == ~IsEmoji(c)

remove_emojis(text) == SelectSeq(text, NotEmoji)

(***************************************************************************)
(* clean_text: the patterns, each as the length of its match at i          *)
(***************************************************************************)

\* @\w+
MentionAt(s, i) ==
    IF s[i] = 64 /\ i < Len(s) /\ IsWord(s[i + 1])
    THEN 1 + RunLen("w", s, i + 1) ELSE 0

\* \[.*?\]\(.*?\) : the shortest label, then the shortest target, neither
\* crossing a line feed
MarkdownLinkAt(s, i) ==
    IF s[i] # 91 THEN 0
    ELSE LET lineEnd == i + RunLen(".", s, i + 1)
             mids == {j \in (i + 1)..(lineEnd - 1) : s[j] = 93 /\ s[j + 1] = 40}
             ends(j) == {k \in (j + 2)..(j + 1 + RunLen(".", s, j + 2) + 1) :
                           k <= Len(s) /\ s[k] = 41}
             ok == {j \in mids : ends(j) # {}}
         IN  IF ok = {} THEN 0
             ELSE Min(ends(Min(ok))) - i + 1

\* https?://\S+
UrlAt(s, i) ==
    LET HTTPS == <<104, 116, 116, 112, 115, 58, 47, 47>>
        HTTP == <<104, 116, 116, 112, 58, 47, 47>>
        head == IF LitAt(s, i, HTTPS) THEN 8 ELSE IF LitAt(s, i, HTTP) THEN 7 ELSE 0
        tail == IF head = 0 THEN 0 ELSE RunLen("S", s, i + head)
    IN  IF tail > 0 THEN head + tail ELSE 0

\* t\.me/\S+
TelegramLinkAt(s, i) ==
    LET TME == <<116, 46, 109, 101, 47>>
        tail == IF LitAt(s, i, TME) THEN RunLen("S", s, i + 5) ELSE 0
    IN  IF tail > 0 THEN 5 + tail ELSE 0

\* c{n,} for one code point c
RepeatAt(c, n, s, i) ==
    IF s[i] # c THEN 0
    ELSE LET len == CharRun(c, s, i)
         IN  IF len >= n THEN len ELSE 0

DashesAt(s, i) == RepeatAt(45, 3, s, i)
EqualsAt(s, i) == RepeatAt(61, 3, s, i)
NewlinesAt(s, i) == RepeatAt(10, 3, s, i)
SpacesAt(s, i) == RepeatAt(32, 2, s, i)

\* the length of the match of a pattern of clean_text at i, 0 when it does
\* not match there (no pattern of the source matches the empty string)
MatchLen(pattern, s, i) ==
    CASE pattern = "mention" -> MentionAt(s, i)
      [] pattern = "markdown" -> MarkdownLinkAt(s, i)
      [] pattern = "url" -> UrlAt(s, i)
      [] pattern = "telegram" -> TelegramLinkAt(s, i)
      [] pattern = "dashes" -> DashesAt(s, i)
      [] pattern = "equals" -> EqualsAt(s, i)
      [] pattern = "newlines" -> NewlinesAt(s, i)
      [] pattern = "spaces" -> SpacesAt(s, i)

\* re.sub(pattern, repl, s): the scan takes the leftmost match at or after
\* `from', replaces it, and goes on behind it
ReSub(pattern, repl, s) ==
    LET RECURSIVE scan(_, _)
        scan(from, acc) ==
            LET i == CHOOSE j \in from..(Len(s) + 1) :
                        /\ j > Len(s) \/ MatchLen(pattern, s, j) > 0
                        /\ \A k \in from..(j - 1) : MatchLen(pattern, s, k) = 0
            IN  IF i > Len(s) THEN acc \o SubSeq(s, from, Len(s))
                ELSE scan(i + MatchLen(pattern, s, i),
                          acc \o SubSeq(s, from, i - 1) \o repl)
    IN  scan(1, <<>>)

\* the re.sub calls of clean_text in their order, each with its replacement
substitutions ==
    <<  [pattern |-> "mention", repl |-> <<>>],
        [pattern |-> "markdown", repl |-> <<>>],
        [pattern |-> "url", repl |-> <<>>],
        [pattern |-> "telegram", repl |-> <<>>],
        [pattern |-> "dashes", repl |-> <<>>],
        [pattern |-> "equals", repl |-> <<>>],
        [pattern |-> "newlines", repl |-> <<10, 10>>],
        [pattern |-> "spaces", repl |-> <<32>>]  >>

\* after(n) is the text after the emojis and the first n substitutions
clean_text(text) ==
    LET RECURSIVE after(_)
        after(n) ==
            IF n = 0 THEN remove_emojis(text)
            ELSE ReSub(substitutions[n].pattern, substitutions[n].repl, after(n - 1))
    IN  Strip(after(Len(substitutions)))

(***************************************************************************)
(* contains_excluded_content and the boilerplate gate                      *)
(***************************************************************************)

excluded_terms ==
    {   <<105, 115, 114, 97, 101, 108>>,                          \* israel
        <<105, 115, 114, 97, 101, 108, 105>>,                     \* israeli
        <<105, 100, 102>>,                                        \* idf
        <<103, 97, 122, 97>>,                                     \* gaza
        <<104, 97, 109, 97, 115>>,                                \* hamas
        <<105, 114, 97, 110>>,                                    \* iran
        <<105, 114, 97, 110, 105, 97, 110>>,                      \* iranian
        <<116, 101, 108, 32, 97, 118, 105, 118>>,                 \* tel aviv
        <<116, 101, 104, 114, 97, 110>>,                          \* tehran
        <<110, 101, 116, 97, 110, 121, 97, 104, 117>>,            \* netanyahu
        <<104, 101, 122, 98, 111, 108, 108, 97, 104>>,            \* hezbollah
        <<112, 97, 108, 101, 115, 116, 105, 110, 101>>,           \* palestine
        <<112, 97, 108, 101, 115, 116, 105, 110, 105, 97, 110>>,  \* palestinian
        <<119, 101, 115, 116, 32, 98, 97, 110, 107>>,             \* west bank
        <<106, 101, 114, 117, 115, 97, 108, 101, 109>>  }         \* jerusalem

\* the gate without the case folding
contains_excluded_content_cased(text) ==
    \E term \in excluded_terms : Contains(text, term)

contains_excluded_content(text) ==
    LET text_lower == Lower(text)
    IN  \E term \in excluded_terms : Contains(text_lower, term)

boilerplate_phrases ==
    {   <<115, 117, 98, 115, 99, 114, 105, 98, 101>>,             \* subscribe
        <<100, 111, 110, 97, 116, 101>>,                          \* donate
        <<102, 111, 108, 108, 111, 119, 32, 117, 115>>,           \* follow us
        <<106, 111, 105, 110, 32, 117, 115>>,                     \* join us
        <<97, 100, 118, 101, 114, 116, 105, 115, 105, 110, 103>> } \* advertising

contains_boilerplate(text) ==
    LET text_lower == Lower(text)
    IN  \E phrase \in boilerplate_phrases : Contains(text_lower, phrase)

(***************************************************************************)
(* Dates and times.  A datetime is <<year, month, day, hour, minute,       *)
(* second>>; None is <<>>, both for an absent datetime and for the absent  *)
(* timestamp string of a message (isoformat never returns '').             *)
(***************************************************************************)

None == <<>>

\* int() of the n decimal digits of s that start at i
Num(s, i, n) ==
    LET RECURSIVE num(_, _)
        num(k, acc) == IF k = n THEN acc ELSE num(k + 1, 10 * acc + (s[i + k] - 48))
    IN  num(0, 0)

\* the decimal digits of v, zero-padded to `width' digits
Pad(v, width) ==
    LET RECURSIVE pow(_)
        pow(k) == IF k = 0 THEN 1 ELSE 10 * pow(k - 1)
    IN  [k \in 1..width |-> 48 + ((v \div pow(width - k)) % 10)]

\* str(v) for v >= 0
Decimal(v) ==
    LET RECURSIVE digits(_)
        digits(n) == IF n < 10 THEN <<48 + n>> ELSE Append(digits(n \div 10), 48 + (n % 10))
    IN  digits(v)

IsLeap(y) == (y % 4 = 0 /\ y % 100 # 0) \/ y % 400 = 0

DaysInMonth(y, m) ==
    IF m = 2 THEN (IF IsLeap(y) THEN 29 ELSE 28)
    ELSE IF m \in {4, 6, 9, 11} THEN 30 ELSE 31

\* datetime(y, mo, d, h, mi, s) raises ValueError outside these ranges, and
\* strptime does not match a month, day or hour outside its own
ValidDateTime(y, mo, d, h, mi, s) ==
    /\ y >= 1 /\ y <= 9999
    /\ mo >= 1 /\ mo <= 12
    /\ d >= 1 /\ d <= DaysInMonth(y, mo)
    /\ h <= 23 /\ mi <= 59 /\ s <= 59

\* \[(\d{4}-\d{2}-\d{2} \d{2}:\d{2}:\d{2})\] matches at i
TimestampAt(s, i) ==
    /\ s[i] = 91
    /\ i + 20 <= Len(s)
    /\ s[i + 20] = 93
    /\ s[i + 5] = 45 /\ s[i + 8] = 45 /\ s[i + 11] = 32
    /\ s[i + 14] = 58 /\ s[i + 17] = 58
    /\ \A k \in {1, 2, 3, 4, 6, 7, 9, 10, 12, 13, 15, 16, 18, 19} : IsDigit(s[i + k])

\* the parser going on to the first match that is a valid date/time
parse_timestamp_rescan(timestamp_str) ==
    LET s == timestamp_str
        Fields(k) == <<Num(s, k + 1, 4), Num(s, k + 6, 2), Num(s, k + 9, 2),
                       Num(s, k + 12, 2), Num(s, k + 15, 2), Num(s, k + 18, 2)>>
        Valid(f) == ValidDateTime(f[1], f[2], f[3], f[4], f[5], f[6])
        Hit(k) == TimestampAt(s, k) /\ Valid(Fields(k))
        last == Len(s) - 20
        i == IF last < 1 THEN 1
             ELSE CHOOSE j \in 1..(last + 1) :
                     (j > last \/ Hit(j)) /\ \A k \in 1..(j - 1) : ~Hit(k)
    IN  IF i > last THEN None ELSE Fields(i)

\* the parser taking the digits of the first match as they are
parse_timestamp_unchecked(timestamp_str) ==
    LET s == timestamp_str
        last == Len(s) - 20
        i == IF last < 1 THEN 1
             ELSE CHOOSE j \in 1..(last + 1) :
                     /\ j > last \/ TimestampAt(s, j)
                     /\ \A k \in 1..(j - 1) : ~TimestampAt(s, k)
    IN  IF i > last THEN None
        ELSE <<Num(s, i + 1, 4), Num(s, i + 6, 2), Num(s, i + 9, 2),
               Num(s, i + 12, 2), Num(s, i + 15, 2), Num(s, i + 18, 2)>>

\* the datetime of the first match of the pattern, None when there is no
\* match or when strptime raises ValueError on it
parse_timestamp(timestamp_str) ==
    LET s == timestamp_str
        last == Len(s) - 20
        i == IF last < 1 THEN 1
             ELSE CHOOSE j \in 1..(last + 1) :
                     /\ j > last \/ TimestampAt(s, j)
                     /\ \A k \in 1..(j - 1) : ~TimestampAt(s, k)
    IN  IF i > last THEN None
        ELSE LET y == Num(s, i + 1, 4)
                 mo == Num(s, i + 6, 2)
                 d == Num(s, i + 9, 2)
                 h == Num(s, i + 12, 2)
                 mi == Num(s, i + 15, 2)
                 sec == Num(s, i + 18, 2)
             IN  IF ValidDateTime(y, mo, d, h, mi, sec)
                 THEN <<y, mo, d, h, mi, sec>> ELSE None

\* datetime.isoformat() of a datetime without microseconds
isoformat(dt) ==
    Pad(dt[1], 4) \o <<45>> \o Pad(dt[2], 2) \o <<45>> \o Pad(dt[3], 2) \o <<84>>
    \o Pad(dt[4], 2) \o <<58>> \o Pad(dt[5], 2) \o <<58>> \o Pad(dt[6], 2)

\* datetime.fromisoformat() of such a string
fromisoformat(ts) ==
    <<Num(ts, 1, 4), Num(ts, 6, 2), Num(ts, 9, 2),
      Num(ts, 12, 2), Num(ts, 15, 2), Num(ts, 18, 2)>>

\* strftime('%Y-%m-%d %H:%M:%S'); %Y is not zero-padded by the C library
strftime(dt) ==
    Decimal(dt[1]) \o <<45>> \o Pad(dt[2], 2) \o <<45>> \o Pad(dt[3], 2) \o <<32>>
    \o Pad(dt[4], 2) \o <<58>> \o Pad(dt[5], 2) \o <<58>> \o Pad(dt[6], 2)

\* a < b for two strings (by code point) or two datetimes (by field)
LexLess(a, b) ==
    \E k \in 1..(Len(b)) :
        /\ \A j \in 1..(k - 1) : j <= Len(a) /\ a[j] = b[j]
        /\ (k > Len(a) \/ a[k] < b[k])

\* date.toordinal()
ToOrdinal(y, m, d) ==
    LET RECURSIVE before(_)
        before(k) == IF k = 1 THEN 0 ELSE before(k - 1) + DaysInMonth(y, k - 1)
    IN  (y - 1) * 365 + ((y - 1) \div 4) - ((y - 1) \div 100) + ((y - 1) \div 400)
        + before(m) + d

\* (b - a).total_seconds()
TotalSeconds(a, b) ==
    (ToOrdinal(b[1], b[2], b[3]) - ToOrdinal(a[1], a[2], a[3])) * 86400
    + (b[4] * 3600 + b[5] * 60 + b[6]) - (a[4] * 3600 + a[5] * 60 + a[6])

\* the hundredths cut off instead of rounded
TruncateHundredths(seconds) == {seconds \div 36}

\* round(seconds / 3600, 2), in hundredths of an hour.  seconds/3600 lies
\* exactly between two hundredths when seconds % 36 = 18; the binary float
\* nearest to it is never that midpoint, and which side it falls on decides
\* the result, so both neighbours are possible there.
RoundHundredths(seconds) ==
    IF seconds % 36 = 18 THEN {seconds \div 36, seconds \div 36 + 1}
    ELSE {(seconds + 18) \div 36}

(***************************************************************************)
(* re.split                                                                *)
(***************************************************************************)

\* \*\*Group: (.+?)\*\* at i: the position of the closing ** (0: no match).
\* The name is the shortest run of one or more non-newline code points that
\* is followed by **.
GroupHeaderEnd(s, i) ==
    LET GROUP == <<42, 42, 71, 114, 111, 117, 112, 58, 32>>
    IN  IF ~LitAt(s, i, GROUP) THEN 0
        ELSE LET reach == i + 8 + RunLen(".", s, i + 9)
                     Closes(e) == s[e] = 42 /\ e < Len(s) /\ s[e + 1] = 42
                 e == IF reach < i + 10 THEN reach + 1
                      ELSE CHOOSE j \in (i + 10)..(reach + 1) :
                              /\ j > reach \/ Closes(j)
                              /\ \A k \in (i + 10)..(j - 1) : ~Closes(k)
             IN  IF e > reach THEN 0 ELSE e

\* re.split(r'\*\*Group: (.+?)\*\*', s): the text before the first header,
\* then for each header its captured name and the text up to the next one
SplitGroups(s) ==
    LET Hit(i) == s[i] = 42 /\ GroupHeaderEnd(s, i) > 0
        RECURSIVE split(_, _)
        split(from, acc) ==
            LET i == CHOOSE j \in from..(Len(s) + 1) :
                        (j > Len(s) \/ Hit(j)) /\ \A k \in from..(j - 1) : ~Hit(k)
            IN  IF i > Len(s) THEN Append(acc, SubSeq(s, from, Len(s)))
                ELSE LET e == GroupHeaderEnd(s, i)
                     IN  split(e + 2, acc \o <<SubSeq(s, from, i - 1), SubSeq(s, i + 9, e - 1)>>)
    IN  split(1, <<>>)

SeparatorLen == 70

\* -{70,}
SeparatorAt(s, i) == RepeatAt(45, SeparatorLen, s, i)

\* re.split(r'-{70,}', s)
SplitBlocks(s) ==
    LET Hit(i) == SeparatorAt(s, i) > 0
        RECURSIVE split(_, _)
        split(from, acc) ==
            LET i == CHOOSE j \in from..(Len(s) + 1) :
                        (j > Len(s) \/ Hit(j)) /\ \A k \in from..(j - 1) : ~Hit(k)
            IN  IF i > Len(s) THEN Append(acc, SubSeq(s, from, Len(s)))
                ELSE split(i + SeparatorAt(s, i), Append(acc, SubSeq(s, from, i - 1)))
    IN  split(1, <<>>)

(***************************************************************************)
(* list.sort(key=...): a stable sort that compares keys with < only        *)
(***************************************************************************)

\* lambda x: x['timestamp'] if x['timestamp'] else ''
SortKey(msg) == IF msg.timestamp # None THEN msg.timestamp ELSE <<>>

\* m placed behind every element whose key is not greater than its own
InsertStable(sorted, m) ==
    LET after == {k \in 1..Len(sorted) : ~LexLess(SortKey(m), SortKey(sorted[k]))}
        n == IF after = {} THEN 0 ELSE Max(after)
    IN  SubSeq(sorted, 1, n) \o <<m>> \o SubSeq(sorted, n + 1, Len(sorted))

\* a sort that puts m in front of the elements with an equal key
SortMessagesUnstable(msgs) ==
    LET Insert(sorted, m) ==
            LET after == {k \in 1..Len(sorted) : LexLess(SortKey(sorted[k]), SortKey(m))}
                n == IF after = {} THEN 0 ELSE Max(after)
            IN  SubSeq(sorted, 1, n) \o <<m>> \o SubSeq(sorted, n + 1, Len(sorted))
        RECURSIVE sort(_)
        sort(k) == IF k = 0 THEN <<>> ELSE Insert(sort(k - 1), msgs[k])
    IN  sort(Len(msgs))

SortMessages(msgs) ==
    LET RECURSIVE sort(_)
        sort(k) == IF k = 0 THEN <<>> ELSE InsertStable(sort(k - 1), msgs[k])
    IN  sort(Len(msgs))

(***************************************************************************)
(* calculate_time_window                                                   *)
(***************************************************************************)

UNKNOWN == <<85, 110, 107, 110, 111, 119, 110>>   \* 'Unknown'

\* the dicts calculate_time_window(messages) can return; duration_hours is
\* in hundredths of an hour
calculate_time_window(msgs) ==
    LET dated == {k \in 1..Len(msgs) : msgs[k].timestamp # None}
        timestamps == {fromisoformat(msgs[k].timestamp) : k \in dated}
    IN  IF timestamps = {} THEN {[start |-> UNKNOWN, end |-> UNKNOWN]}
        ELSE LET start_time == CHOOSE t \in timestamps : \A u \in timestamps : ~LexLess(u, t)
                 end_time == CHOOSE t \in timestamps : \A u \in timestamps : ~LexLess(t, u)
             IN  {[start |-> strftime(start_time),
                   end |-> strftime(end_time),
                   duration_hours |-> h] :
                     h \in RoundHundredths(TotalSeconds(start_time, end_time))}

(***************************************************************************)
(* The program state: preprocess_messages and the loops of                 *)
(* extract_messages, one step per loop iteration.                          *)
(***************************************************************************)

VARIABLES
    news_content,     \* the text blob found in the envelope
    pc,               \* where preprocess_messages is
    group_sections,   \* extract_messages: the result of the group split
    i,                \* extract_messages: the index of the outer loop
    current_group,    \* extract_messages: the group of the blocks being read
    message_blocks,   \* extract_messages: the blocks of the current group
    b,                \* extract_messages: how many blocks the inner loop has taken
    block,            \* extract_messages: the stripped block last taken
    timestamp,        \* extract_messages: the datetime last parsed, or None
    cleaned_text,     \* extract_messages: the text last cleaned
    messages,         \* the accepted messages
    time_window,      \* the dict returned by calculate_time_window
    output_data       \* the document written to output_file, None before

vars == <<news_content, pc, group_sections, i, current_group, message_blocks, b,
          block, timestamp, cleaned_text, messages, time_window, output_data>>

extract_locals == <<group_sections, i, current_group, message_blocks, b,
                    block, timestamp, cleaned_text>>

MinBlockLen == 50
MinTextLen == 100

\* `not block or len(block) < 50`
TooShort(blk) == blk = <<>> \/ Len(blk) < MinBlockLen

\* the threshold taken inclusively
LongEnoughInclusive(text) == text # <<>> /\ Len(text) >= MinTextLen

\* `cleaned_text and len(cleaned_text) > 100`
LongEnough(text) == text # <<>> /\ Len(text) > MinTextLen

\* the dict appended for an accepted block
Message(ts, group, text, blk) ==
    [timestamp |-> IF ts # None THEN isoformat(ts) ELSE None,
     group |-> group,
     text |-> text,
     original_length |-> Len(blk)]

\* whether the block passes the three gates that follow cleaning
Accepted(text) ==
    /\ ~contains_excluded_content(text)
    /\ ~contains_boilerplate(text)
    /\ LongEnough(text)

\* the captured name taken as it is
GroupNameUntrimmed(sections, k) == sections[k + 1]

\* group_sections[i].strip()
GroupName(sections, k) == Strip(sections[k + 1])

\* the values datetime.now() takes in the model
Now == {<<2024, 6, 1, 12, 0, 0>>, <<2024, 6, 1, 12, 0, 1>>}

\* `if not news_content:` the run ends without an output document
CheckContent ==
    /\ pc = "locate"
    /\ pc' = IF news_content = <<>> THEN "aborted" ELSE "extract"
    /\ UNCHANGED <<news_content, extract_locals, messages, time_window, output_data>>

\* extract_messages up to the outer loop
BeginExtract ==
    /\ pc = "extract"
    /\ messages' = <<>>
    /\ group_sections' = SplitGroups(news_content)
    /\ current_group' = UNKNOWN
    /\ i' = 1
    /\ pc' = "groups"
    /\ UNCHANGED <<news_content, message_blocks, b, block, timestamp, cleaned_text,
                   time_window, output_data>>

\* one turn of `for i in range(1, len(group_sections), 2)` up to the inner loop
NextGroup ==
    /\ pc = "groups"
    /\ i < Len(group_sections)
    /\ IF i + 1 < Len(group_sections)
       THEN /\ current_group' = GroupName(group_sections, i)
            /\ message_blocks' = SplitBlocks(group_sections[i + 2])
            /\ b' = 0
            /\ pc' = "blocks"
            /\ i' = i
       ELSE /\ i' = i + 2
            /\ UNCHANGED <<current_group, message_blocks, b, pc>>
    /\ UNCHANGED <<news_content, group_sections, block, timestamp, cleaned_text,
                   messages, time_window, output_data>>

\* one turn of `for block in message_blocks`
ProcessBlock ==
    /\ pc = "blocks"
    /\ b < Len(message_blocks)
    /\ b' = b + 1
    /\ block' = Strip(message_blocks[b + 1])
    /\ IF TooShort(block')
       THEN UNCHANGED <<timestamp, cleaned_text, messages>>
       ELSE /\ timestamp' = parse_timestamp(block')
            /\ cleaned_text' = clean_text(block')
            /\ messages' = IF Accepted(cleaned_text')
                           THEN Append(messages,
                                       Message(timestamp', current_group, cleaned_text', block'))
                           ELSE messages
    /\ UNCHANGED <<news_content, pc, group_sections, i, current_group, message_blocks,
                   time_window, output_data>>

\* the inner loop is exhausted: the outer loop steps
EndGroup ==
    /\ pc = "blocks"
    /\ b >= Len(message_blocks)
    /\ i' = i + 2
    /\ pc' = "groups"
    /\ UNCHANGED <<news_content, group_sections, current_group, message_blocks, b,
                   block, timestamp, cleaned_text, messages, time_window, output_data>>

\* the outer loop is exhausted: `return messages`
ReturnMessages ==
    /\ pc = "groups"
    /\ i >= Len(group_sections)
    /\ pc' = "sort"
    /\ UNCHANGED <<news_content, extract_locals, messages, time_window, output_data>>

\* messages.sort(key=...)
SortStep ==
    /\ pc = "sort"
    /\ messages' = SortMessages(messages)
    /\ pc' = "window"
    /\ UNCHANGED <<news_content, extract_locals, time_window, output_data>>

\* time_window = calculate_time_window(messages)
WindowStep ==
    /\ pc = "window"
    /\ time_window' \in calculate_time_window(messages)
    /\ pc' = "write"
    /\ UNCHANGED <<news_content, extract_locals, messages, output_data>>

\* output_data is built and dumped to output_file
WriteOutput ==
    /\ pc = "write"
    /\ \E now \in Now :
          output_data' = [metadata |-> [total_messages |-> Len(messages),
                                        time_window |-> time_window,
                                        processed_at |-> isoformat(now)],
                          messages |-> messages]
    /\ pc' = "report"
    /\ UNCHANGED <<news_content, extract_locals, messages, time_window>>

\* the summary prints; time_window['duration_hours'] raises KeyError when the
\* dict has no such key
PrintSummary ==
    /\ pc = "report"
    /\ pc' = IF "duration_hours" \in DOMAIN time_window THEN "done" ELSE "crashed"
    /\ UNCHANGED <<news_content, extract_locals, messages, time_window, output_data>>

Next ==
    \/ CheckContent
    \/ BeginExtract
    \/ NextGroup
    \/ ProcessBlock
    \/ EndGroup
    \/ ReturnMessages
    \/ SortStep
    \/ WindowStep
    \/ WriteOutput
    \/ PrintSummary

\* the state once the envelope has been searched for the blob
InitWith(blobs) ==
    /\ news_content \in blobs
    /\ pc = "locate"
    /\ group_sections = <<>>
    /\ i = 0
    /\ current_group = <<>>
    /\ message_blocks = <<>>
    /\ b = 0
    /\ block = <<>>
    /\ timestamp = None
    /\ cleaned_text = <<>>
    /\ messages = <<>>
    /\ time_window = None
    /\ output_data = None

(***************************************************************************)
(* The blobs the runs start from                                           *)
(***************************************************************************)

MaxTokens == 3
MaxPieces == 4

\* the sequences over S of length at most n
SeqsUpTo(S, n) == UNION {[1..k -> S] : k \in 0..n}

\* ''.join(parts)
Concat(parts) ==
    LET RECURSIVE join(_)
        join(k) == IF k = 0 THEN <<>> ELSE join(k - 1) \o parts[k]
    IN  join(Len(parts))

\* c * n
Rep(c, n) == [k \in 1..n |-> c]

HeaderA == <<42, 42, 71, 114, 111, 117, 112, 58, 32, 65, 42, 42, 10>>               \* '**Group: A**\n'
HeaderB == <<42, 42, 71, 114, 111, 117, 112, 58, 32, 32, 66, 32, 9, 42, 42, 10>>    \* '**Group:  B \t**\n'

\* a run of word characters exactly as long as the acceptance threshold
LongWord == Rep(122, MinTextLen)

\* a separator line
Rule == <<10>> \o Rep(45, SeparatorLen) \o <<10>>

\* the noise a block is made of: a mention sign, a markdown link, the parts
\* of a URL, a dash run, an emoji, parts of an excluded term, a boilerplate
\* phrase
Tokens ==
    {   <<64>>,                                               \* '@'
        <<91, 73, 115, 114, 97, 101, 108, 93, 40, 117, 41>>,  \* '[Israel](u)'
        <<104, 116, 116, 112, 58, 47>>,                       \* 'http:/'
        <<45, 45, 45>>,                                       \* '---'
        <<47>>,                                               \* '/'
        <<128512>>,                                           \* U+1F600
        <<73, 115, 82>>,                                      \* 'IsR'
        <<97, 69, 108>>,                                      \* 'aEl'
        <<68, 111, 110, 97, 116, 101>>  }                     \* 'Donate'

\* one group holding one block: some noise in front of a long word
Blobs == {HeaderA \o Concat(ts) \o LongWord : ts \in SeqsUpTo(Tokens, MaxTokens)}

Stamp1 == <<91, 50, 48, 50, 52, 45, 48, 49, 45, 48, 49, 32, 49, 48, 58, 48, 48, 58, 48, 48, 93>>      \* '[2024-01-01 10:00:00]'
Stamp2 == <<91, 50, 48, 50, 52, 45, 48, 49, 45, 48, 49, 32, 49, 48, 58, 48, 48, 58, 49, 56, 93>>      \* '[2024-01-01 10:00:18]'
Stamp3 == <<91, 50, 48, 50, 52, 45, 48, 50, 45, 50, 57, 32, 50, 51, 58, 53, 57, 58, 53, 57, 93>>      \* '[2024-02-29 23:59:59]'
BadMonth == <<91, 50, 48, 50, 52, 45, 49, 51, 45, 48, 49, 32, 49, 48, 58, 48, 48, 58, 48, 48, 93>>    \* '[2024-13-01 10:00:00]'
BadDay == <<91, 50, 48, 50, 51, 45, 48, 50, 45, 50, 57, 32, 48, 48, 58, 48, 48, 58, 48, 48, 93>>      \* '[2023-02-29 00:00:00]'

\* what a block's timestamps are made of: valid and invalid bracketed
\* date/times, and an excluded term
StampTokens ==
    {   Stamp1, Stamp3, BadMonth, BadDay,
        <<73, 114, 97, 110>>,      \* 'Iran'
        <<32>>  }                  \* ' '

\* one group holding one block: bracketed date/times in front of a long word
StampBlobs == {HeaderA \o Concat(ts) \o LongWord : ts \in SeqsUpTo(StampTokens, MaxTokens)}

\* a block that passes every gate, followed by a separator line
DatedBlock(stamp) == stamp \o <<32>> \o LongWord \o Rule

UndatedBlock == <<78, 111, 116, 101, 32>> \o LongWord \o Rule    \* 'Note zzz...'

\* what a blob of several groups is made of
Pieces ==
    {HeaderA, HeaderB, DatedBlock(Stamp1), DatedBlock(Stamp2), DatedBlock(Stamp3),
     UndatedBlock}

\* headers and blocks in any order, text before the first header included
GroupBlobs == {Concat(ps) : ps \in SeqsUpTo(Pieces, MaxPieces)}

Init == InitWith(Blobs)
Spec == Init /\ [][Next]_vars

InitStamp == InitWith(StampBlobs)
SpecStamp == InitStamp /\ [][Next]_vars

InitGroups == InitWith(GroupBlobs)
SpecGroups == InitGroups /\ [][Next]_vars

(***************************************************************************)
(* What the claims speak of                                                *)
(***************************************************************************)

\* '@' followed by a word character
HasMention(t) == \E k \in 1..(Len(t) - 1) : t[k] = 64 /\ IsWord(t[k + 1])

\* 'http://' or 'https://' followed by a non-whitespace character
HasUrl(t) ==
    \E k \in 1..Len(t) :
        /\ t[k] = 104
        /\ \/ (LitAt(t, k, <<104, 116, 116, 112, 58, 47, 47>>)
                 /\ k + 7 <= Len(t) /\ ~IsSpace(t[k + 7]))
           \/ (LitAt(t, k, <<104, 116, 116, 112, 115, 58, 47, 47>>)
                 /\ k + 8 <= Len(t) /\ ~IsSpace(t[k + 8]))

\* a code point of the enumerated emoji ranges
HasEmoji(t) == \E k \in 1..Len(t) : IsEmoji(t[k])

\* the word "israel" in any letter case
MentionsIsrael(t) == Contains(Lower(t), <<105, 115, 114, 97, 101, 108>>)

\* the step of the inner loop that takes a block of at least 50 characters
TakesBlock == pc = "blocks" /\ b' = b + 1 /\ Len(block') >= 50

\* where the bracketed [YYYY-MM-DD HH:MM:SS] pattern occurs in a block
StampPositions(blk) == {k \in 1..(Len(blk) - 20) : blk[k] = 91 /\ TimestampAt(blk, k)}

HasStamp(blk) == StampPositions(blk) # {}

\* whether the occurrence at k is a date/time of the calendar
StampValidAt(blk, k) ==
    ValidDateTime(Num(blk, k + 1, 4), Num(blk, k + 6, 2), Num(blk, k + 9, 2),
                  Num(blk, k + 12, 2), Num(blk, k + 15, 2), Num(blk, k + 18, 2))

\* the block's first occurrence is not a valid date/time
FirstStampInvalid(blk) == HasStamp(blk) /\ ~StampValidAt(blk, Min(StampPositions(blk)))

\* the text of the first occurrence, in ISO-8601 form: the date, 'T', the time
FirstStampIso(blk) ==
    LET k == Min(StampPositions(blk))
    IN  SubSeq(blk, k + 1, k + 10) \o <<84>> \o SubSeq(blk, k + 12, k + 19)

\* the timestamp a message of this block must carry
ExpectedTimestamp(blk) ==
    IF HasStamp(blk) /\ ~FirstStampInvalid(blk) THEN FirstStampIso(blk) ELSE None

\* the run has returned from calculate_time_window
WindowKnown == pc \in {"write", "report", "done", "crashed"}

UnknownWindow == [start |-> UNKNOWN, end |-> UNKNOWN]

\* the positions of the dated messages
Dated(msgs) == {k \in 1..Len(msgs) : msgs[k].timestamp # None}

\* an ISO-8601 timestamp as the window shows it: a space for the 'T'
Spaced(ts) == [ts EXCEPT ![11] = 32]

\* start and end of the window are the least and the greatest timestamp of
\* the dated messages
WindowSpansDated ==
    /\ "duration_hours" \in DOMAIN time_window
    /\ \E k \in Dated(messages) :
          /\ time_window.start = Spaced(messages[k].timestamp)
          /\ \A j \in Dated(messages) : ~LexLess(messages[j].timestamp, messages[k].timestamp)
    /\ \E k \in Dated(messages) :
          /\ time_window.end = Spaced(messages[k].timestamp)
          /\ \A j \in Dated(messages) : ~LexLess(messages[k].timestamp, messages[j].timestamp)
    /\ ~LexLess(time_window.end, time_window.start)

\* the seconds from the window's start to its end
WindowSeconds == TotalSeconds(fromisoformat(time_window.start), fromisoformat(time_window.end))

\* some header of the form **Group: <name>** in the text
HasHeader(t) == \E k \in 1..Len(t) : t[k] = 42 /\ GroupHeaderEnd(t, k) > 0

\* where the section behind the header of loop index k starts in the blob:
\* behind the sections and names before it and their '**Group: ' and '**'
SectionStart(sections, k) ==
    LET RECURSIVE total(_)
        total(n) == IF n = 0 THEN 0 ELSE total(n - 1) + Len(sections[n])
    IN  total(k + 1) + 11 * ((k + 1) \div 2) + 1

(***************************************************************************)
(* The claims                                                              *)
(***************************************************************************)

\* C1: the text of every emitted message contains no URL, no @mention and
\* no emoji of the enumerated ranges.
C1_TextFreeOfNoise ==
    \A k \in 1..Len(messages) :
        /\ ~HasUrl(messages[k].text)
        /\ ~HasMention(messages[k].text)
        /\ ~HasEmoji(messages[k].text)

\* C2: a block whose raw text contains the word "Israel", in any letter
\* case, never becomes a message.
C2_IsraelBlockNeverEmitted ==
    [][TakesBlock /\ MentionsIsrael(block') => messages' = messages]_vars

\* C3: once the blob is located the run never crashes: it writes the output
\* document and returns normally.
C3_NeverCrashes == pc # "crashed"

\* C4: no emitted message's text contains, case-insensitively, an
\* excluded-topic term or a boilerplate phrase.
C4_NoExcludedKeyword ==
    \A k \in 1..Len(messages) :
        \A word \in excluded_terms \cup boilerplate_phrases :
            ~Contains(Lower(messages[k].text), word)

\* a block whose cleaned text holds "IsRaEl" in mixed case was taken and
\* dropped
C4_Witness ==
    /\ pc = "blocks" /\ b = 1
    /\ Contains(cleaned_text, <<73, 115, 82, 97, 69, 108>>)
    /\ Len(cleaned_text) > 100
    /\ messages = <<>>

\* C5, as stated: a block whose first bracketed pattern is not a valid
\* date/time yields no message.
C5_BadStampBlockExcluded ==
    [][TakesBlock /\ FirstStampInvalid(block') => messages' = messages]_vars

\* C5, amended: a block whose first bracketed pattern is not a valid
\* date/time is not excluded for that: it yields a message exactly when its
\* cleaned text passes the content gates and is longer than 100, and that
\* message has a null timestamp.
C5_BadStampBlockKeptUndated ==
    [][TakesBlock /\ FirstStampInvalid(block') =>
          IF Accepted(cleaned_text')
          THEN /\ Len(messages') = Len(messages) + 1
               /\ SubSeq(messages', 1, Len(messages)) = messages
               /\ messages'[Len(messages')].timestamp = None
               /\ messages'[Len(messages')].original_length = Len(block')
          ELSE messages' = messages]_vars

\* a block that holds nothing but invalid date/times in front of its text
\* has become a message without a timestamp
C5_Witness ==
    /\ pc = "blocks" /\ b = 1
    /\ FirstStampInvalid(block)
    /\ \A k \in StampPositions(block) : ~StampValidAt(block, k)
    /\ Len(messages) = 1
    /\ messages[1].timestamp = None
    /\ messages[1].text = cleaned_text

\* C6: the sort puts the messages in ascending order of timestamp string,
\* the null timestamps first, keeps the order of extraction among equal
\* timestamps, and only reorders; the written document holds that sequence.
C6_StableAscendingSort ==
    [][/\ pc = "sort" =>
            /\ Len(messages') = Len(messages)
            /\ \A k \in 1..Len(messages) :
                  LET before == {j \in 1..Len(messages) :
                                    \/ LexLess(messages[j].timestamp, messages[k].timestamp)
                                    \/ (messages[j].timestamp = messages[k].timestamp /\ j < k)}
                  IN  messages'[Cardinality(before) + 1] = messages[k]
       /\ pc = "write" =>
            /\ output_data'.messages = messages
            /\ \A k \in 1..(Len(messages) - 1) :
                  ~LexLess(output_data'.messages[k + 1].timestamp,
                           output_data'.messages[k].timestamp)
      ]_vars

\* the document holds an undated message in front of two dated ones, which
\* were extracted in the opposite order
C6_Witness ==
    /\ pc = "report"
    /\ Len(output_data.messages) = 3
    /\ output_data.messages[1].timestamp = None
    /\ output_data.messages[2].timestamp = FirstStampIso(Stamp1)
    /\ output_data.messages[3].timestamp = FirstStampIso(Stamp3)
    /\ news_content = HeaderA \o DatedBlock(Stamp3) \o DatedBlock(Stamp1) \o UndatedBlock

\* C7, as stated: without a dated message the window is exactly
\* Unknown/Unknown; otherwise it spans the dated messages and duration_hours
\* equals the seconds from start to end divided by 3600.
C7_ExactDuration ==
    WindowKnown =>
        IF Dated(messages) = {} THEN time_window = UnknownWindow
        ELSE /\ WindowSpansDated
             /\ time_window.duration_hours * 36 = WindowSeconds

\* C7, amended: duration_hours is the seconds from start to end divided by
\* 3600 and rounded to 2 decimal places (within half a hundredth of the
\* quotient, 0 when start and end are equal).
C7_RoundedDuration ==
    WindowKnown =>
        IF Dated(messages) = {} THEN time_window = UnknownWindow
        ELSE /\ WindowSpansDated
             /\ time_window.duration_hours * 36 - WindowSeconds <= 18
             /\ WindowSeconds - time_window.duration_hours * 36 <= 18
             /\ (time_window.start = time_window.end => time_window.duration_hours = 0)

\* a window over an undated and two dated messages whose distance is not a
\* whole number of hundredths of an hour
C7_Witness ==
    /\ pc = "report"
    /\ Len(messages) = 3
    /\ Cardinality(Dated(messages)) = 2
    /\ time_window.start # time_window.end
    /\ WindowSeconds % 36 # 0
    /\ WindowSeconds % 36 # 18

\* C8: text in front of the first header never yields a message: a message
\* comes from a block of the section behind a header of the blob, with no
\* header in between, and its group is that header's name, trimmed; a blob
\* without a header yields no message and an Unknown/Unknown window.
C8_OnlyBlocksBehindHeaders ==
    [][/\ messages' # messages /\ pc = "blocks" =>
            LET name == group_sections[i + 1]
                section == group_sections[i + 2]
                start == SectionStart(group_sections, i)
                header == start - 11 - Len(name)
            IN  /\ i >= 1 /\ i % 2 = 1 /\ i + 2 <= Len(group_sections)
                /\ header > Len(group_sections[1])
                /\ GroupHeaderEnd(news_content, header) = start - 2
                /\ SubSeq(news_content, header + 9, start - 3) = name
                /\ LitAt(news_content, start, section)
                /\ \A k \in 1..Len(section) : section[k] = 42 => GroupHeaderEnd(section, k) = 0
                /\ Contains(section, block')
                /\ messages'[Len(messages')].group = Strip(name)
       /\ messages' # messages /\ pc # "sort" => HasHeader(news_content)
       /\ pc = "window" /\ ~HasHeader(news_content) =>
            messages' = <<>> /\ time_window' = UnknownWindow
      ]_vars

\* a long well-formed block stands in front of the first header, and the
\* only message is the one of the block behind the header '  B \t'
C8_Witness ==
    /\ pc = "sort"
    /\ news_content = DatedBlock(Stamp1) \o HeaderB \o DatedBlock(Stamp2)
    /\ Len(messages) = 1
    /\ messages[1].group = <<66>>
    /\ messages[1].timestamp = FirstStampIso(Stamp2)

\* C9: every emitted message has a non-empty text longer than 100
\* characters and comes from a block of at least 50 characters.
C9_LongTextOnly ==
    \A k \in 1..Len(messages) :
        /\ messages[k].text # <<>>
        /\ Len(messages[k].text) > 100
        /\ messages[k].original_length >= 50

\* a message of exactly 101 characters, cleaned from a longer block
C9_Witness ==
    /\ Len(messages) = 1
    /\ Len(messages[1].text) = 101
    /\ messages[1].original_length > 101

\* C10: only the first occurrence of the bracketed pattern counts: the
\* timestamp is that date/time in ISO-8601 form when it is valid and null
\* otherwise, whatever follows in the block, and the block goes through
\* cleaning and the gates either way.
C10_FirstStampOnly ==
    [][TakesBlock =>
          /\ timestamp' = None <=> ExpectedTimestamp(block') = None
          /\ timestamp' # None => isoformat(timestamp') = ExpectedTimestamp(block')
          /\ IF Accepted(cleaned_text')
             THEN /\ Len(messages') = Len(messages) + 1
                  /\ messages'[Len(messages')].timestamp = ExpectedTimestamp(block')
                  /\ messages'[Len(messages')].text = cleaned_text'
             ELSE messages' = messages]_vars

\* a block whose first date/time is invalid and whose second is valid has
\* become a message without a timestamp
C10_Witness ==
    /\ pc = "blocks" /\ b = 1
    /\ FirstStampInvalid(block)
    /\ \E k \in StampPositions(block) : StampValidAt(block, k)
    /\ Len(messages) = 1
    /\ messages[1].timestamp = None

====
